---- MODULE Spec2Model ----
(***************************************************************************)
(* Model of apps/accelsender/boot.js: a scalar Kalman filter per axis, a   *)
(* peak tracker over a reporting window and the periodic report sender.    *)
(*                                                                         *)
(* Numbers are the doubles of JavaScript (IEEE 754 binary64), written by   *)
(* the fields of their encoding, <<sign, exponent, high, low>>:            *)
(*   sign      the sign bit, 1 for a negative number,                      *)
(*   exponent  the 11 exponent bits, 0 for zero and the subnormal numbers, *)
(*             2047 for the infinities and NaN,                            *)
(*   high, low the 52 fraction bits, the upper 24 and the lower 28.        *)
(* 1 is <<0, 1023, 0, 0>>, -0 is <<1, 0, 0, 0>>, Infinity is               *)
(* <<0, 2047, 0, 0>>; NaN is the one value <<0, 2047, 2^23, 0>>, as        *)
(* JavaScript has one NaN.  Every operation gives the double nearest to    *)
(* the exact result, ties to the even fraction, with overflow to an        *)
(* infinity, gradual underflow and signed zeros, so that the model         *)
(* computes the double the program computes, digit for digit.              *)
(***************************************************************************)
EXTENDS Integers, Sequences, FiniteSets, TLC

\* ------------------------------------------------------------------------
\* Bounds of the model
\* ------------------------------------------------------------------------
MaxSamples == 3
MaxTicks == 2
MaxCalls == 3
MaxSets == 1
MaxRepeats == 42

\* ------------------------------------------------------------------------
\* Number arithmetic (JavaScript Number)
\* ------------------------------------------------------------------------
\* integers wider than a machine word are kept in words of 28 bits, lowest
\* word first: <<w1, w2, w3, w4>> is w1 + w2 * 2^28 + w3 * 2^56 + w4 * 2^84
Word == 268435456

\* products are formed from halves of a word, 14 bits each
Limb == 16384

\* 2^24, the leading 1 of a normal fraction, above the 24 high fraction bits
HiddenBit == 16777216

\* exponent field of the infinities and NaN
ExponentMax == 2047

\* a double with exponent field e >= 1 and the 53-bit fraction m (leading 1
\* included) is m * 2^(e - 1075)
ExponentBias == 1075

\* binary digits of a fraction
Precision == 53

NaN == <<0, ExponentMax, HiddenBit \div 2, 0>>

Infinity == <<0, ExponentMax, 0, 0>>

Zero == <<0, 0, 0, 0>>

One == <<0, 1023, 0, 0>>

\* 1/2
Half == <<0, 1022, 0, 0>>

\* the global isNaN on a number
isNaN(a) == a[2] = ExponentMax /\ (a[3] # 0 \/ a[4] # 0)

IsInf(a) == a[2] = ExponentMax /\ a[3] = 0 /\ a[4] = 0

IsFinite(a) == a[2] < ExponentMax

\* +0 or -0
IsZero(a) == a[2] = 0 /\ a[3] = 0 /\ a[4] = 0

\* a finite double is Mantissa * 2^Exponent
Mantissa(a) == <<a[4], IF a[2] = 0 THEN a[3] ELSE a[3] + HiddenBit, 0, 0>>

Exponent(a) == (IF a[2] = 0 THEN 1 ELSE a[2]) - ExponentBias

\* number of binary digits of w < 2^(2k), k a power of 2
RECURSIVE BitsOf(_, _)
BitsOf(w, k) ==
  IF k = 0 THEN (IF w = 0 THEN 0 ELSE 1)
  ELSE IF w >= 2 ^ k THEN k + BitsOf(w \div (2 ^ k), k \div 2)
  ELSE BitsOf(w, k \div 2)

\* number of binary digits of the wide integer b
BLen(b) ==
  IF b[4] # 0 THEN 84 + BitsOf(b[4], 16)
  ELSE IF b[3] # 0 THEN 56 + BitsOf(b[3], 16)
  ELSE IF b[2] # 0 THEN 28 + BitsOf(b[2], 16)
  ELSE BitsOf(b[1], 16)

BWord(b, i) == IF i >= 1 /\ i <= 4 THEN b[i] ELSE 0

\* b \div 2^k
BShr(b, k) ==
  LET kw == k \div 28
      p == 2 ^ (k % 28)
      r == 2 ^ (28 - (k % 28))
      W(i) == BWord(b, i + kw) \div p + (BWord(b, i + kw + 1) % p) * r
  IN  IF kw >= 4 THEN <<0, 0, 0, 0>> ELSE <<W(1), W(2), W(3), W(4)>>

\* b * 2^k, for a product below 2^112
BShl(b, k) ==
  LET kw == k \div 28
      p == 2 ^ (k % 28)
      r == 2 ^ (28 - (k % 28))
      W(i) == (BWord(b, i - kw) % r) * p + BWord(b, i - kw - 1) \div r
  IN  <<W(1), W(2), W(3), W(4)>>

\* b % 2^k # 0
BLow(b, k) ==
  LET kw == k \div 28
      p == 2 ^ (k % 28)
  IN  \/ \E i \in 1..4 : i <= kw /\ b[i] # 0
      \/ BWord(b, kw + 1) % p # 0

BAdd(a, b) ==
  LET s1 == a[1] + b[1]
      s2 == a[2] + b[2] + s1 \div Word
      s3 == a[3] + b[3] + s2 \div Word
      s4 == a[4] + b[4] + s3 \div Word
  IN  <<s1 % Word, s2 % Word, s3 % Word, s4>>

\* a - b, for a >= b
BSub(a, b) ==
  LET d1 == a[1] - b[1] + Word
      d2 == a[2] - b[2] + Word - (1 - d1 \div Word)
      d3 == a[3] - b[3] + Word - (1 - d2 \div Word)
      d4 == a[4] - b[4] - (1 - d3 \div Word)
  IN  <<d1 % Word, d2 % Word, d3 % Word, d4>>

BLess(a, b) ==
  IF a[4] # b[4] THEN a[4] < b[4]
  ELSE IF a[3] # b[3] THEN a[3] < b[3]
  ELSE IF a[2] # b[2] THEN a[2] < b[2]
  ELSE a[1] < b[1]

\* a * b, for a and b below 2^56
BMul(a, b) ==
  LET a0 == a[1] % Limb
      a1 == a[1] \div Limb
      a2 == a[2] % Limb
      a3 == a[2] \div Limb
      b0 == b[1] % Limb
      b1 == b[1] \div Limb
      b2 == b[2] % Limb
      b3 == b[2] \div Limb
      p0 == a0 * b0
      p1 == a0 * b1 + a1 * b0 + p0 \div Limb
      p2 == a0 * b2 + a1 * b1 + a2 * b0 + p1 \div Limb
      p3 == a0 * b3 + a1 * b2 + a2 * b1 + a3 * b0 + p2 \div Limb
      p4 == a1 * b3 + a2 * b2 + a3 * b1 + p3 \div Limb
      p5 == a2 * b3 + a3 * b2 + p4 \div Limb
      p6 == a3 * b3 + p5 \div Limb
  IN  <<(p0 % Limb) + (p1 % Limb) * Limb, (p2 % Limb) + (p3 % Limb) * Limb,
        (p4 % Limb) + (p5 % Limb) * Limb, p6>>

\* the double of sign s with the fraction m <= 2^53 (already rounded) and
\* the exponent q: m * 2^q, an infinity when the exponent is out of range
Pack(s, m, q) ==
  IF m[2] = 2 * HiddenBit
  THEN (IF q + 1 + ExponentBias >= ExponentMax THEN <<s, ExponentMax, 0, 0>>
        ELSE <<s, q + 1 + ExponentBias, 0, 0>>)
  ELSE IF m[2] < HiddenBit THEN <<s, 0, m[2], m[1]>>
  ELSE IF q + ExponentBias >= ExponentMax THEN <<s, ExponentMax, 0, 0>>
  ELSE <<s, q + ExponentBias, m[2] - HiddenBit, m[1]>>

\* the fraction m <= 2^53 of sign s and exponent q, after the digits below
\* it were dropped: half says that the first dropped digit was 1, sticky
\* that a later one was; a tie goes to the even fraction
RoundEven(s, m, q, half, sticky) ==
  Pack(s, IF half /\ (sticky \/ m[1] % 2 = 1) THEN BAdd(m, <<1, 0, 0, 0>>) ELSE m, q)

\* t holds one digit more than the fraction
RoundHalf(s, t, q, sticky) == RoundEven(s, BShr(t, 1), q, t[1] % 2 = 1, sticky)

\* b is shifted right by sh digits (left when sh <= 0, exactly)
RoundBy(s, b, q, sticky, sh) ==
  IF sh <= 0 THEN Pack(s, BShl(b, -sh), q + sh)
  ELSE RoundHalf(s, BShr(b, sh - 1), q + sh, sticky \/ BLow(b, sh - 1))

\* b has n digits: 53 are kept, fewer for a subnormal number
RoundShift(s, b, q, sticky, n) ==
  RoundBy(s, b, q, sticky,
          IF q + n - Precision < 1 - ExponentBias
          THEN 1 - ExponentBias - q ELSE n - Precision)

\* the double nearest to b * 2^q (b # 0) with sign s, ties to even; sticky
\* says that the exact value is above b * 2^q by less than 2^q
Round(s, b, q, sticky) == RoundShift(s, b, q, sticky, BLen(b))

\* the double of the integer n > 0 with sign s
NumOf(s, n) == Round(s, <<n % Word, n \div Word, 0, 0>>, 0, FALSE)

\* the double of the integer literal i
Num(i) == IF i = 0 THEN Zero ELSE NumOf(IF i < 0 THEN 1 ELSE 0, IF i < 0 THEN -i ELSE i)

\* 2^e
Pow2(e) == Round(0, <<1, 0, 0, 0>>, e, FALSE)

\* -a
Neg(a) == IF isNaN(a) THEN NaN ELSE <<1 - a[1], a[2], a[3], a[4]>>

\* Math.abs(a)
AbsNum(a) == IF isNaN(a) THEN NaN ELSE <<0, a[2], a[3], a[4]>>

\* sl * l * 2^q + sr * r * 2^q for signs sl, sr and integers l, r
AddAligned(sl, sr, l, r, q) ==
  IF sl # sr /\ l = r THEN Zero
  ELSE Round(IF sl = sr \/ BLess(r, l) THEN sl ELSE sr,
             IF sl = sr THEN BAdd(l, r)
             ELSE IF BLess(r, l) THEN BSub(l, r) ELSE BSub(r, l),
             q, FALSE)

\* big + small for finite non-zero doubles, the exponent of big not below
\* that of small; a small more than 56 digits below big changes nothing
AddOrdered(big, small) ==
  IF Exponent(big) - Exponent(small) > Precision + 3 THEN big
  ELSE AddAligned(big[1], small[1],
                  BShl(Mantissa(big), Exponent(big) - Exponent(small)),
                  Mantissa(small), Exponent(small))

\* a + b
Add(a, b) ==
  IF isNaN(a) \/ isNaN(b) THEN NaN
  ELSE IF IsInf(a) THEN (IF IsInf(b) /\ a[1] # b[1] THEN NaN ELSE a)
  ELSE IF IsInf(b) THEN b
  ELSE IF IsZero(a) /\ IsZero(b) THEN (IF a[1] = 1 /\ b[1] = 1 THEN a ELSE Zero)
  ELSE IF IsZero(a) THEN b
  ELSE IF IsZero(b) THEN a
  ELSE AddOrdered(IF Exponent(a) >= Exponent(b) THEN a ELSE b,
                  IF Exponent(a) >= Exponent(b) THEN b ELSE a)

\* a - b
Sub(a, b) == Add(a, Neg(b))

\* sign bit of a product or quotient
SignOf(a, b) == (a[1] + b[1]) % 2

\* a * b; a product with 1 is the other factor
Mul(a, b) ==
  IF isNaN(a) \/ isNaN(b) THEN NaN
  ELSE IF a = One THEN b
  ELSE IF b = One THEN a
  ELSE IF IsInf(a) \/ IsInf(b)
  THEN (IF IsZero(a) \/ IsZero(b) THEN NaN ELSE <<SignOf(a, b), ExponentMax, 0, 0>>)
  ELSE IF IsZero(a) \/ IsZero(b) THEN <<SignOf(a, b), 0, 0, 0>>
  ELSE Round(SignOf(a, b), BMul(Mantissa(a), Mantissa(b)),
             Exponent(a) + Exponent(b), FALSE)

\* a finite non-zero double is Normal * 2^NormalExponent with
\* 2^52 <= Normal < 2^53
Normal(a) == BShl(Mantissa(a), Precision - BLen(Mantissa(a)))

NormalExponent(a) == Exponent(a) - (Precision - BLen(Mantissa(a)))

\* long division: the remainder <<rh, rl>> (two words) is reduced below the
\* divisor <<dh, dl>>, d counts the subtractions
RECURSIVE DivFix(_, _, _, _, _)
DivFix(rh, rl, dh, dl, d) ==
  IF rh > dh \/ (rh = dh /\ rl >= dl)
  THEN LET sl == rl - dl + Word
       IN  DivFix(rh - dh - (1 - sl \div Word), sl % Word, dh, dl, d + 1)
  ELSE <<rh, rl, d>>

\* next 14 digits of a quotient: the remainder <<rh, rl>> times 2^14 is
\* divided by <<dh, dl>>, from an estimate that is never too large;
\* the result is <<remainder high, remainder low, quotient digit>>
DivDigit(rh, rl, dh, dl) ==
  LET est == (rh * 16 + rl \div HiddenBit) \div (dh \div 1024 + 1)
      t0 == est * (dl % Limb)
      t1 == est * (dl \div Limb) + t0 \div Limb
      t2 == est * (dh % Limb) + t1 \div Limb
      t3 == est * (dh \div Limb) + t2 \div Limb
      z0 == (rl % Limb) * Limb - ((t0 % Limb) + (t1 % Limb) * Limb) + Word
      z1 == rl \div Limb + (rh % Limb) * Limb
              - ((t2 % Limb) + (t3 % Limb) * Limb) - (1 - z0 \div Word) + Word
  IN  DivFix(z1 % Word, z0 % Word, dh, dl, est)

\* the following digits of a quotient, 14 at a time, k times; the last
\* entry says whether a remainder is left
RECURSIVE DivDigits(_, _, _, _, _)
DivDigits(rh, rl, dh, dl, k) ==
  IF k = 0 THEN <<rh # 0 \/ rl # 0>>
  ELSE LET q == DivDigit(rh, rl, dh, dl)
       IN  <<q[3]>> \o DivDigits(q[1], q[2], dh, dl, k - 1)

\* the quotient of sign s from its leading digit q0[3] and the 56 digits
\* that follow, times 2^q
DivRound(s, d0, ds, q) ==
  Round(s, <<ds[3] * Limb + ds[4], ds[1] * Limb + ds[2], d0, 0>>, q, ds[5])

DivFrom(s, q0, dh, dl, q) ==
  DivRound(s, q0[3], DivDigits(q0[1], q0[2], dh, dl, 4), q)

\* l / r * 2^(q + 56) for fractions l and r of 53 digits
DivNormal(s, l, r, q) ==
  DivFrom(s, DivFix(l[2], l[1], r[2], r[1], 0), r[2], r[1], q)

\* a / b
Div(a, b) ==
  IF isNaN(a) \/ isNaN(b) THEN NaN
  ELSE IF IsInf(a) THEN (IF IsInf(b) THEN NaN ELSE <<SignOf(a, b), ExponentMax, 0, 0>>)
  ELSE IF IsInf(b) THEN <<SignOf(a, b), 0, 0, 0>>
  ELSE IF IsZero(b) THEN (IF IsZero(a) THEN NaN ELSE <<SignOf(a, b), ExponentMax, 0, 0>>)
  ELSE IF IsZero(a) THEN <<SignOf(a, b), 0, 0, 0>>
  ELSE DivNormal(SignOf(a, b), Normal(a), Normal(b),
                 NormalExponent(a) - NormalExponent(b) - 56)

\* 1 / a
Recip(a) == Div(One, a)

\* Newton iteration for the integer square root of v, n steps from x
RECURSIVE RootOf(_, _, _)
RootOf(v, x, n) == IF n = 0 THEN x ELSE RootOf(v, (x + v \div x) \div 2, n - 1)

\* the 53-bit fraction R = <<rl, rh>> nearest to sqrt(m * 2^52):
\* (2R - 1)^2 < m * 2^54 < (2R + 1)^2, reached from an estimate
RECURSIVE SqrtFix(_, _, _)
SqrtFix(m, rh, rl) ==
  LET below == <<(2 * rl - 1 + Word) % Word,
                 2 * rh + (2 * rl - 1 + Word) \div Word - 1, 0, 0>>
      above == <<(2 * rl + 1) % Word, 2 * rh + (2 * rl + 1) \div Word, 0, 0>>
      target == BShl(m, 54)
  IN  IF BLess(target, BMul(below, below))
      THEN (IF rl = 0 THEN SqrtFix(m, rh - 1, Word - 1) ELSE SqrtFix(m, rh, rl - 1))
      ELSE IF BLess(BMul(above, above), target)
      THEN (IF rl = Word - 1 THEN SqrtFix(m, rh + 1, 0) ELSE SqrtFix(m, rh, rl + 1))
      ELSE <<rl, rh, 0, 0>>

\* Newton iteration for the square root of the double x, n steps from y
RECURSIVE SqrtNewton(_, _, _)
SqrtNewton(x, y, n) ==
  IF n = 0 THEN y ELSE SqrtNewton(x, Mul(Half, Add(y, Div(x, y))), n - 1)

\* the square root of m * 2^q, q even, from the estimate y of sqrt(m * 2^-52)
SqrtFrom(m, q, y) ==
  Pack(0, SqrtFix(m, IF y[2] = 1023 THEN y[3] + HiddenBit ELSE 2 * HiddenBit - 1,
                     IF y[2] = 1023 THEN y[4] ELSE Word - 1),
       q \div 2 - 26)

\* x is the double m * 2^-52, in [1, 4)
SqrtEven(m, q, x) ==
  SqrtFrom(m, q,
           SqrtNewton(x, Round(0, <<RootOf(m[2] * 16 + m[1] \div HiddenBit, 32768, 4),
                                    0, 0, 0>>, -14, FALSE), 2))

\* n * 2^e with 2^52 <= n < 2^53
SqrtNormal(n, e) ==
  SqrtEven(IF e % 2 # 0 THEN BShl(n, 1) ELSE n,
           IF e % 2 # 0 THEN e - 1 ELSE e,
           <<0, IF e % 2 # 0 THEN 1024 ELSE 1023, n[2] - HiddenBit, n[1]>>)

\* Math.sqrt(a): the double nearest to the square root (a square root is
\* never half-way between two doubles)
Sqrt(a) ==
  IF isNaN(a) THEN NaN
  ELSE IF IsZero(a) THEN a
  ELSE IF a[1] = 1 THEN NaN
  ELSE IF IsInf(a) THEN a
  ELSE SqrtNormal(Normal(a), NormalExponent(a))

\* a < b
Less(a, b) ==
  IF isNaN(a) \/ isNaN(b) THEN FALSE
  ELSE IF IsZero(a) /\ IsZero(b) THEN FALSE
  ELSE IF a[1] # b[1] THEN a[1] = 1
  ELSE LET Below(x, y) ==
             IF x[2] # y[2] THEN x[2] < y[2]
             ELSE IF x[3] # y[3] THEN x[3] < y[3]
             ELSE x[4] < y[4]
       IN  IF a[1] = 0 THEN Below(a, b) ELSE Below(b, a)

\* a > b
Greater(a, b) == Less(b, a)

\* a === b
Same(a, b) == ~isNaN(a) /\ ~isNaN(b) /\ (a = b \/ (IsZero(a) /\ IsZero(b)))

\* a <= b
LessEq(a, b) == Less(a, b) \/ Same(a, b)

\* ------------------------------------------------------------------------
\* class KalmanFilter
\* ------------------------------------------------------------------------
\* constructor({R, Q, A, B, C}): cov and x start as NaN
KalmanFilter(R, Q, A, B, C) ==
  [R |-> R, Q |-> Q, A |-> A, B |-> B, C |-> C, cov |-> NaN, x |-> NaN]

\* new KalmanFilter(): R = 1, Q = 1, A = 1, B = 0, C = 1
DefaultKalmanFilter == KalmanFilter(One, One, One, Zero, One)

\* variant of predict: the control term is B + u instead of B * u
predict_plusControl(f, u) == Add(Mul(f.A, f.x), Add(f.B, u))

\* predict(u): A * x + B * u
predict(f, u) == Add(Mul(f.A, f.x), Mul(f.B, u))

\* uncertainty(): A * cov * A + R
uncertainty(f) == Add(Mul(Mul(f.A, f.cov), f.A), f.R)

\* lastMeasurement(): x
lastMeasurement(f) == f.x

\* variant of KalmanGain: the denominator multiplies predCov by C once only
KalmanGain_singleC(f) ==
  LET predCov == uncertainty(f)
  IN  Mul(Mul(predCov, f.C), Recip(Add(Mul(f.C, predCov), f.Q)))

\* variant of KalmanGain: Q is subtracted in the denominator
KalmanGain_minusQ(f) ==
  LET predCov == uncertainty(f)
  IN  Mul(Mul(predCov, f.C), Recip(Sub(Mul(Mul(f.C, predCov), f.C), f.Q)))

\* K = predCov * C * (1 / (C * predCov * C + Q))
KalmanGain(f) ==
  LET predCov == uncertainty(f)
  IN  Mul(Mul(predCov, f.C), Recip(Add(Mul(Mul(f.C, predCov), f.C), f.Q)))

\* variant of KalmanFilter_filter: the first call multiplies by C instead of 1/C
KalmanFilter_filter_initTimesC(f, z, u) ==
  IF isNaN(f.x)
  THEN [f EXCEPT !.x = Mul(f.C, z),
                 !.cov = Mul(Mul(f.C, f.Q), f.C)]
  ELSE LET predX == predict(f, u)
           predCov == uncertainty(f)
           K == KalmanGain(f)
       IN  [f EXCEPT !.x = Add(predX, Mul(K, Sub(z, Mul(f.C, predX)))),
                     !.cov = Sub(predCov, Mul(Mul(K, f.C), predCov))]

\* setMeasurementNoise(noise): the filter object after the call
setMeasurementNoise(f, noise) == [f EXCEPT !.Q = noise]

\* setProcessNoise(noise): the filter object after the call
setProcessNoise(f, noise) == [f EXCEPT !.R = noise]

\* filter(z, u): the filter object after the call; the call returns its x
KalmanFilter_filter(f, z, u) ==
  IF isNaN(f.x)
  THEN [f EXCEPT !.x = Mul(Recip(f.C), z),
                 !.cov = Mul(Mul(Recip(f.C), f.Q), Recip(f.C))]
  ELSE LET predX == predict(f, u)
           predCov == uncertainty(f)
           K == KalmanGain(f)
       IN  [f EXCEPT !.x = Add(predX, Mul(K, Sub(z, Mul(f.C, predX)))),
                     !.cov = Sub(predCov, Mul(Mul(K, f.C), predCov))]

\* ------------------------------------------------------------------------
\* State
\* ------------------------------------------------------------------------
VARIABLES
  filterX, filterY, filterZ,  \* the three KalmanFilter objects
  max_acceleration,           \* peak of the current window {x, y, z, mag}
  hasData,                    \* flag set by updateAcceleration
  config,                     \* what readJSON("accelsender.json") || {} gave
  gbCalls,                    \* messages handed to gbSend, in order
  consoleErrors,              \* number of console.error calls of gbSend
  window,                     \* [raw, filtered] of the accel events since the last tick
  accelFinite,                \* all components of the accel events so far were finite numbers
  accelRange,                 \* which readings and measurements this run delivers
  getAccelRet,                \* <<v>> if the last tick called Bangle.getAccel(), else <<>>
  samples,                    \* number of accel events delivered
  ticks,                      \* number of timer callbacks run
  kf,                         \* a KalmanFilter object used on its own
  kfCalls,                    \* number of filter calls made on kf
  kfArg,                      \* <<z, u>> of the last filter call on kf
  kfRet,                      \* value returned by the last filter call on kf
  kfSets,                     \* number of setProcessNoise/setMeasurementNoise calls on kf
  kfConst,                    \* all filter calls on kf so far had the same arguments
  kfFinite                    \* all measurements given to kf so far were finite numbers

progVars == <<filterX, filterY, filterZ, max_acceleration, hasData, config,
              gbCalls, consoleErrors, window, accelFinite, accelRange,
              getAccelRet, samples, ticks>>
kfVars == <<kf, kfCalls, kfArg, kfRet, kfSets, kfConst, kfFinite>>
vars == <<filterX, filterY, filterZ, max_acceleration, hasData, config,
          gbCalls, consoleErrors, window, accelFinite, accelRange,
          getAccelRet, samples, ticks,
          kf, kfCalls, kfArg, kfRet, kfSets, kfConst, kfFinite>>

\* ------------------------------------------------------------------------
\* Input domains
\* ------------------------------------------------------------------------
\* an accelerometer reading as delivered by Bangle.on("accel") / Bangle.getAccel()
Vector(x, y, z) ==
  [x |-> x, y |-> y, z |-> z,
   mag |-> Sqrt(Add(Add(Mul(x, x), Mul(y, y)), Mul(z, z)))]

Reading(x, y, z) == Vector(Num(x), Num(y), Num(z))

\* 2^1023, a finite double whose double is not a finite double
Huge == Pow2(1023)

\* readings of a motion along one axis at a time
OrdinarySamples == {Reading(1, 0, 0), Reading(0, 5, 0), Reading(0, 0, 2)}

\* readings of a motion that reverses on an axis and comes to rest
ReversingSamples == {Reading(1, 0, 0), Reading(-2, 0, 0), Reading(0, 0, 0)}

\* readings at the limit of the range of a double, and a reading with a
\* component that is not a number
ExtremeSamples ==
  {Vector(Huge, Zero, Zero), Vector(Neg(Huge), Zero, Zero),
   Vector(NaN, Zero, Zero)}

\* readings the "accel" event delivers in one run
RawSamples(range) ==
  IF range = "ordinary" THEN OrdinarySamples
  ELSE IF range = "reversing" THEN ReversingSamples
  ELSE ExtremeSamples

Ranges == {"ordinary", "reversing", "extreme"}

\* readings Bangle.getAccel() returns at a tick
LiveSamples == {Reading(0, 0, 2)}

\* what the Bluetooth.println calls of one gbSend do: return, or throw
Outcomes == {"ok", "throw"}

\* constructor options and filter arguments of the KalmanFilter used on its own
OptionsR == {Zero, One}
OptionsQ == {Zero, One}
RepeatOptionsQ == {Zero, One, Num(2)}
OptionsA == {One, Num(2)}
OptionsB == {Zero, One}
OptionsC == {Zero, One, Num(2), Num(5)}
OrdinaryMeasurements == {Num(-1), Num(2)}
ExtremeMeasurements == {Huge, Neg(Huge), NaN}
Measurements(range) ==
  IF range = "extreme" THEN ExtremeMeasurements ELSE OrdinaryMeasurements
OrdinaryControls == {Zero, One}
Controls(range) == IF range = "extreme" THEN {Zero} ELSE OrdinaryControls

\* content of accelsender.json as seen by readJSON: absent, or {enabled: b}
ConfigFiles == {"absent", "disabled", "enabled"}

readJSON(file) ==
  IF file = "absent" THEN [enabled |-> FALSE]      \* undefined || {} : enabled is undefined
  ELSE [enabled |-> (file = "enabled")]

\* ------------------------------------------------------------------------
\* Program
\* ------------------------------------------------------------------------
\* var max_acceleration = {x: 0, y: 0, z: 0, mag: 0}
ZeroAcceleration == [x |-> Zero, y |-> Zero, z |-> Zero, mag |-> Zero]

\* variant of gbSend: the catch block sends the message once more
gbSend_retry(message, outcome) ==
  /\ gbCalls' = IF outcome = "ok" THEN Append(gbCalls, message)
                ELSE Append(Append(gbCalls, message), message)
  /\ consoleErrors' = IF outcome = "ok" THEN consoleErrors ELSE consoleErrors + 1

\* gbSend(message): the try block prints the message over Bluetooth; a throw
\* is caught and logged with console.error, nothing is tried again
gbSend(message, outcome) ==
  /\ gbCalls' = Append(gbCalls, message)
  /\ consoleErrors' = IF outcome = "ok" THEN consoleErrors ELSE consoleErrors + 1

\* {x, y, z, mag} with mag = Math.sqrt(x*x + y*y + z*z)
WithMagnitude(x, y, z) ==
  [x |-> x, y |-> y, z |-> z,
   mag |-> Sqrt(Add(Add(Mul(x, x), Mul(y, y)), Mul(z, z)))]

\* what filter(accel) leaves and returns, from the three filter objects
\* after their calls
Filtered(fx, fy, fz) ==
  [fx |-> fx, fy |-> fy, fz |-> fz, filtered |-> WithMagnitude(fx.x, fy.x, fz.x)]

\* filter(accel): runs the three filters, returns them and the filtered
\* vector with mag = Math.sqrt(x*x + y*y + z*z)
filter(accel) ==
  Filtered(KalmanFilter_filter(filterX, accel.x, Zero),
           KalmanFilter_filter(filterY, accel.y, Zero),
           KalmanFilter_filter(filterZ, accel.z, Zero))

\* all components of the reading are finite numbers
FiniteReading(accel) == IsFinite(accel.x) /\ IsFinite(accel.y) /\ IsFinite(accel.z)

\* variant of updateAcceleration: the comparison is >= instead of >
updateAcceleration_ge(accel) ==
  \E r \in {filter(accel)} :
  LET new_accel == r.filtered
      current_max_raw == new_accel.mag
      max_raw == max_acceleration.mag
  IN  /\ hasData' = TRUE
      /\ filterX' = r.fx
      /\ filterY' = r.fy
      /\ filterZ' = r.fz
      /\ max_acceleration' = IF LessEq(max_raw, current_max_raw)
                             THEN new_accel ELSE max_acceleration
      /\ window' = Append(window, [raw |-> accel, filtered |-> new_accel])
      /\ accelFinite' = (accelFinite /\ FiniteReading(accel))
      /\ samples' = samples + 1
      /\ UNCHANGED <<config, gbCalls, consoleErrors, getAccelRet, ticks>>

\* variant of updateAcceleration: hasData is set only when the peak is replaced
updateAcceleration_flagOnReplace(accel) ==
  \E r \in {filter(accel)} :
  LET new_accel == r.filtered
      current_max_raw == new_accel.mag
      max_raw == max_acceleration.mag
  IN  /\ hasData' = IF Greater(current_max_raw, max_raw) THEN TRUE ELSE hasData
      /\ filterX' = r.fx
      /\ filterY' = r.fy
      /\ filterZ' = r.fz
      /\ max_acceleration' = IF Greater(current_max_raw, max_raw)
                             THEN new_accel ELSE max_acceleration
      /\ window' = Append(window, [raw |-> accel, filtered |-> new_accel])
      /\ accelFinite' = (accelFinite /\ FiniteReading(accel))
      /\ samples' = samples + 1
      /\ UNCHANGED <<config, gbCalls, consoleErrors, getAccelRet, ticks>>

\* variant of updateAcceleration: the raw sample is stored as the peak
updateAcceleration_storeRaw(accel) ==
  \E r \in {filter(accel)} :
  LET new_accel == r.filtered
      current_max_raw == new_accel.mag
      max_raw == max_acceleration.mag
  IN  /\ hasData' = TRUE
      /\ filterX' = r.fx
      /\ filterY' = r.fy
      /\ filterZ' = r.fz
      /\ max_acceleration' = IF Greater(current_max_raw, max_raw)
                             THEN accel ELSE max_acceleration
      /\ window' = Append(window, [raw |-> accel, filtered |-> new_accel])
      /\ accelFinite' = (accelFinite /\ FiniteReading(accel))
      /\ samples' = samples + 1
      /\ UNCHANGED <<config, gbCalls, consoleErrors, getAccelRet, ticks>>

\* updateAcceleration(accel): handler of the "accel" event
updateAcceleration(accel) ==
  \E r \in {filter(accel)} :
  LET new_accel == r.filtered
      current_max_raw == new_accel.mag
      max_raw == max_acceleration.mag
  IN  /\ hasData' = TRUE
      /\ filterX' = r.fx
      /\ filterY' = r.fy
      /\ filterZ' = r.fz
      /\ max_acceleration' = IF Greater(current_max_raw, max_raw)
                             THEN new_accel ELSE max_acceleration
      /\ window' = Append(window, [raw |-> accel, filtered |-> new_accel])
      /\ accelFinite' = (accelFinite /\ FiniteReading(accel))
      /\ samples' = samples + 1
      /\ UNCHANGED <<config, gbCalls, consoleErrors, getAccelRet, ticks>>

\* variant of sendAccelerationData: max_acceleration is not reset
sendAccelerationData_keepPeak(live, outcome) ==
  LET accel == IF hasData THEN max_acceleration ELSE live
      update_data == [t |-> "accel", accel |-> accel]
  IN  /\ gbSend(update_data, outcome)
      /\ getAccelRet' = IF hasData THEN <<>> ELSE <<live>>
      /\ max_acceleration' = max_acceleration
      /\ hasData' = FALSE
      /\ window' = <<>>
      /\ ticks' = ticks + 1
      /\ UNCHANGED <<filterX, filterY, filterZ, config, samples, accelFinite>>

\* variant of sendAccelerationData: max_acceleration is sent whatever hasData is
sendAccelerationData_noFallback(live, outcome) ==
  LET accel == max_acceleration
      update_data == [t |-> "accel", accel |-> accel]
  IN  /\ gbSend(update_data, outcome)
      /\ getAccelRet' = <<>>
      /\ max_acceleration' = ZeroAcceleration
      /\ hasData' = FALSE
      /\ window' = <<>>
      /\ ticks' = ticks + 1
      /\ UNCHANGED <<filterX, filterY, filterZ, config, samples, accelFinite>>

\* variant of sendAccelerationData: a throw of the transport leaves the
\* callback before the reset
sendAccelerationData_throwPropagates(live, outcome) ==
  LET accel == IF hasData THEN max_acceleration ELSE live
      update_data == [t |-> "accel", accel |-> accel]
  IN  /\ gbSend(update_data, outcome)
      /\ getAccelRet' = IF hasData THEN <<>> ELSE <<live>>
      /\ max_acceleration' = IF outcome = "ok" THEN ZeroAcceleration
                             ELSE max_acceleration
      /\ hasData' = IF outcome = "ok" THEN FALSE ELSE hasData
      /\ window' = <<>>
      /\ ticks' = ticks + 1
      /\ UNCHANGED <<filterX, filterY, filterZ, config, samples, accelFinite>>

\* variant of sendAccelerationData: the live reading of the fallback is passed
\* through the filters
sendAccelerationData_filtersFallback(live, outcome) ==
  \E r \in {filter(live)} :
  LET accel == IF hasData THEN max_acceleration ELSE r.filtered
      update_data == [t |-> "accel", accel |-> accel]
  IN  /\ gbSend(update_data, outcome)
      /\ getAccelRet' = IF hasData THEN <<>> ELSE <<live>>
      /\ max_acceleration' = ZeroAcceleration
      /\ hasData' = FALSE
      /\ window' = <<>>
      /\ ticks' = ticks + 1
      /\ filterX' = IF hasData THEN filterX ELSE r.fx
      /\ filterY' = IF hasData THEN filterY ELSE r.fy
      /\ filterZ' = IF hasData THEN filterZ ELSE r.fz
      /\ UNCHANGED <<config, samples, accelFinite>>

\* sendAccelerationData(): the setInterval callback; live is what
\* Bangle.getAccel() would return now, outcome what the transport does
sendAccelerationData(live, outcome) ==
  LET accel == IF hasData THEN max_acceleration ELSE live
      update_data == [t |-> "accel", accel |-> accel]
  IN  /\ gbSend(update_data, outcome)
      /\ getAccelRet' = IF hasData THEN <<>> ELSE <<live>>
      /\ max_acceleration' = ZeroAcceleration
      /\ hasData' = FALSE
      /\ window' = <<>>
      /\ ticks' = ticks + 1
      /\ UNCHANGED <<filterX, filterY, filterZ, config, samples, accelFinite>>

\* Bangle.on("accel", updateAcceleration), registered when config.enabled
AccelEvent ==
  /\ config.enabled
  /\ samples < MaxSamples
  /\ \E accel \in RawSamples(accelRange) : updateAcceleration(accel)
  /\ UNCHANGED accelRange
  /\ UNCHANGED kfVars

\* variant of Tick: setInterval is called outside the if (config.enabled)
Tick_unconditional ==
  /\ ticks < MaxTicks
  /\ \E live \in LiveSamples, outcome \in Outcomes :
        sendAccelerationData(live, outcome)
  /\ UNCHANGED accelRange
  /\ UNCHANGED kfVars

\* setInterval(sendAccelerationData, config.interval), started when config.enabled
Tick ==
  /\ config.enabled
  /\ ticks < MaxTicks
  /\ \E live \in LiveSamples, outcome \in Outcomes :
        sendAccelerationData(live, outcome)
  /\ UNCHANGED accelRange
  /\ UNCHANGED kfVars

InitProgram ==
  /\ filterX = DefaultKalmanFilter
  /\ filterY = DefaultKalmanFilter
  /\ filterZ = DefaultKalmanFilter
  /\ max_acceleration = ZeroAcceleration
  /\ hasData = FALSE
  /\ gbCalls = <<>>
  /\ consoleErrors = 0
  /\ window = <<>>
  /\ accelFinite = TRUE
  /\ accelRange \in Ranges
  /\ getAccelRet = <<>>
  /\ samples = 0
  /\ ticks = 0

InitKFIdle ==
  /\ kf = DefaultKalmanFilter
  /\ kfCalls = 0
  /\ kfArg = <<Zero, Zero>>
  /\ kfRet = NaN
  /\ kfSets = 0
  /\ kfConst = TRUE
  /\ kfFinite = TRUE

Init ==
  /\ \E file \in ConfigFiles : config = readJSON(file)
  /\ InitProgram
  /\ InitKFIdle

Next == AccelEvent \/ Tick

Spec == Init /\ [][Next]_vars

\* ------------------------------------------------------------------------
\* A KalmanFilter object on its own: constructed with any options, then
\* filter(z, u), setMeasurementNoise(noise) and setProcessNoise(noise)
\* called in any order
\* ------------------------------------------------------------------------
FilterCall ==
  /\ kfCalls < MaxCalls
  /\ \E z \in Measurements(accelRange), u \in Controls(accelRange) :
        /\ kf' = KalmanFilter_filter(kf, z, u)
        /\ kfArg' = <<z, u>>
        /\ kfConst' = (kfConst /\ (kfCalls = 0 \/ kfArg = <<z, u>>))
        /\ kfFinite' = (kfFinite /\ IsFinite(z))
  /\ kfRet' = kf'.x
  /\ kfCalls' = kfCalls + 1
  /\ UNCHANGED kfSets
  /\ UNCHANGED progVars

SetMeasurementNoise ==
  /\ kfSets < MaxSets
  /\ \E noise \in OptionsQ : kf' = setMeasurementNoise(kf, noise)
  /\ kfSets' = kfSets + 1
  /\ UNCHANGED <<kfCalls, kfArg, kfRet, kfConst, kfFinite>>
  /\ UNCHANGED progVars

SetProcessNoise ==
  /\ kfSets < MaxSets
  /\ \E noise \in OptionsR : kf' = setProcessNoise(kf, noise)
  /\ kfSets' = kfSets + 1
  /\ UNCHANGED <<kfCalls, kfArg, kfRet, kfConst, kfFinite>>
  /\ UNCHANGED progVars

\* a KalmanFilter constructed with options of the given sets, before any call
InitFilter(optionsQ) ==
  /\ config = readJSON("absent")
  /\ InitProgram
  /\ accelRange \in {"ordinary", "extreme"}
  /\ \E R \in OptionsR, Q \in optionsQ, A \in OptionsA, B \in OptionsB,
        C \in OptionsC : kf = KalmanFilter(R, Q, A, B, C)
  /\ kfCalls = 0
  /\ kfArg = <<Zero, Zero>>
  /\ kfRet = NaN
  /\ kfSets = 0
  /\ kfConst = TRUE
  /\ kfFinite = TRUE

InitKF == InitFilter(OptionsQ)

NextKF == FilterCall \/ SetMeasurementNoise \/ SetProcessNoise

SpecKF == InitKF /\ [][NextKF]_vars

\* ------------------------------------------------------------------------
\* A KalmanFilter object constructed with any options and given a first
\* measurement, then a second one again and again: filter(z0), filter(m),
\* filter(m), ..., without control input
\* ------------------------------------------------------------------------
RepeatCall ==
  /\ kfCalls <= MaxRepeats
  /\ \E z \in Measurements(accelRange) :
        /\ kfCalls >= 2 => z = kfArg[1]
        /\ kf' = KalmanFilter_filter(kf, z, Zero)
        /\ kfArg' = <<z, Zero>>
        /\ kfConst' = (kfConst /\ (kfCalls = 0 \/ kfArg = <<z, Zero>>))
        /\ kfFinite' = (kfFinite /\ IsFinite(z))
  /\ kfRet' = kf'.x
  /\ kfCalls' = kfCalls + 1
  /\ UNCHANGED kfSets
  /\ UNCHANGED progVars

InitRepeat == InitFilter(RepeatOptionsQ)

NextRepeat == RepeatCall

SpecRepeat == InitRepeat /\ [][NextRepeat]_vars

\* ------------------------------------------------------------------------
\* Properties
\* ------------------------------------------------------------------------
SampleStep == samples' = samples + 1
TickStep == ticks' = ticks + 1
CallStep == kfCalls' = kfCalls + 1

\* index of the earliest entry of w whose magnitude is the largest; entries
\* whose magnitude is NaN count only when all magnitudes are NaN
PeakIndex(w) ==
  LET numbers == {i \in 1..Len(w) : ~isNaN(w[i].filtered.mag)}
      among == IF numbers = {} THEN 1..Len(w) ELSE numbers
  IN  CHOOSE i \in among :
        /\ \A j \in among : ~Greater(w[j].filtered.mag, w[i].filtered.mag)
        /\ \A j \in among : j < i => Less(w[j].filtered.mag, w[i].filtered.mag)

\* C1: a tick that follows at least one accel event since the previous tick
\* emits the filtered vector of largest magnitude among the events of this
\* window, the earliest one on ties; nothing older than the window is
\* emitted.  Stated for runs whose readings have finite numbers for
\* components.
C1_TickEmitsWindowPeak ==
  [][(TickStep /\ window # <<>> /\ accelFinite)
       => /\ Len(gbCalls') = Len(gbCalls) + 1
          /\ gbCalls'[Len(gbCalls')].accel = window[PeakIndex(window)].filtered]_vars

\* C2: a tick with no accel event since the previous tick (or since startup)
\* emits the vector Bangle.getAccel() returned at that tick.
C2_EmptyWindowEmitsLiveRead ==
  [][(TickStep /\ window = <<>>)
       => /\ Len(getAccelRet') = 1
          /\ Len(gbCalls') = Len(gbCalls) + 1
          /\ gbCalls'[Len(gbCalls')].accel = getAccelRet'[1]]_vars

\* a tick after an earlier window with data found its own window empty and
\* emitted the non-zero live reading
C2_Witness ==
  /\ ticks = 2
  /\ samples >= 1
  /\ window = <<>>
  /\ getAccelRet = <<Reading(0, 0, 2)>>
  /\ Len(gbCalls) = 2
  /\ gbCalls[2].accel = Reading(0, 0, 2)
  /\ gbCalls[1].accel # gbCalls[2].accel

\* C3: every tick hands exactly one message {t: "accel", accel: chosen vector}
\* to gbSend, also when the transport throws; the number of messages handed
\* over always equals the number of ticks, whatever the number of accel events.
C3_OneEmissionPerTick ==
  /\ [](Len(gbCalls) = ticks)
  /\ [][TickStep
          => gbCalls' = Append(gbCalls,
                 [t |-> "accel",
                  accel |-> IF hasData THEN max_acceleration ELSE getAccelRet'[1]])]_vars
  /\ [][SampleStep => gbCalls' = gbCalls]_vars

\* two ticks ran, a transport call threw, accel events were delivered
C3_Witness ==
  /\ ticks = 2
  /\ consoleErrors >= 1
  /\ samples >= 2
  /\ Len(gbCalls) = 2

\* C4 as stated: the first filter(z) call on a fresh KalmanFilter sets
\* x = z / C and cov = Q / C^2 (the quotients as doubles), with the Q in
\* force at the call, and returns x; with C = 1 it returns z itself.
C4_Original ==
  [][(CallStep /\ kfCalls = 0)
       => /\ kf'.x = Div(kfArg'[1], kf.C)
          /\ kf'.cov = Div(kf.Q, Mul(kf.C, kf.C))
          /\ kfRet' = kf'.x
          /\ (kf.C = One => kfRet' = kfArg'[1])]_vars

\* C4 amended: the first filter(z) call on a fresh KalmanFilter sets
\* x = (1/C) * z and cov = (1/C) * Q * (1/C), every operation rounded to a
\* double, with the Q in force at the call, and returns x; with C = 1 these
\* are z and Q themselves.
C4_FirstCallMultipliesByReciprocal ==
  [][(CallStep /\ kfCalls = 0)
       => /\ kf'.x = Mul(Div(One, kf.C), kfArg'[1])
          /\ kf'.cov = Mul(Mul(Div(One, kf.C), kf.Q), Div(One, kf.C))
          /\ kfRet' = kf'.x
          /\ (kf.C = One => (kfRet' = kfArg'[1] /\ kf'.cov = kf.Q))]_vars

\* a first call with C = 5, Q = 1 and the measurement -1: x is -0.2 and cov
\* is 0.04000000000000001, one digit above the double of 1/25
C4_Witness ==
  /\ kfCalls = 1
  /\ kf.C = Num(5)
  /\ kf.Q = One
  /\ kfArg[1] = Num(-1)
  /\ kf.x = <<1, 1020, 10066329, 161061274>>
  /\ kf.cov = <<0, 1018, 4697620, 128849020>>
  /\ kf.cov # Div(One, Num(25))

\* the scalar Kalman step as the specification writes it, the gain a quotient
ReferenceStep(f, z, u) ==
  LET predEstimate == Add(Mul(f.A, f.x), Mul(f.B, u))
      predCov == Add(Mul(Mul(f.A, f.cov), f.A), f.R)
      K == Div(Mul(predCov, f.C), Add(Mul(Mul(f.C, predCov), f.C), f.Q))
  IN  [f EXCEPT !.x = Add(predEstimate, Mul(K, Sub(z, Mul(f.C, predEstimate)))),
                !.cov = Sub(predCov, Mul(Mul(K, f.C), predCov))]

\* the same step with the gain a product with the reciprocal of the denominator
ReciprocalStep(f, z, u) ==
  LET predEstimate == Add(Mul(f.A, f.x), Mul(f.B, u))
      predCov == Add(Mul(Mul(f.A, f.cov), f.A), f.R)
      K == Mul(Mul(predCov, f.C),
               Div(One, Add(Mul(Mul(f.C, predCov), f.C), f.Q)))
  IN  [f EXCEPT !.x = Add(predEstimate, Mul(K, Sub(z, Mul(f.C, predEstimate)))),
                !.cov = Sub(predCov, Mul(Mul(K, f.C), predCov))]

\* C5 as stated: a filter(z, u) call on an initialized KalmanFilter performs
\* the scalar Kalman step with K = predCov*C / (C*predCov*C + Q) and returns
\* the new estimate.
C5_Original ==
  [][(CallStep /\ ~isNaN(kf.x))
       => /\ kf' = ReferenceStep(kf, kfArg'[1], kfArg'[2])
          /\ kfRet' = kf'.x]_vars

\* C5 amended: a filter(z, u) call on an initialized KalmanFilter performs
\* the scalar Kalman step with K = predCov*C * (1 / (C*predCov*C + Q)), the
\* reciprocal rounded before the product, and returns the new estimate.
C5_KalmanStepWithReciprocal ==
  [][(CallStep /\ ~isNaN(kf.x))
       => /\ kf' = ReciprocalStep(kf, kfArg'[1], kfArg'[2])
          /\ kfRet' = kf'.x]_vars

\* R = Q = 1, A = 1, C = 2, measurements -1, -1: the second call leaves
\* cov = 0.20833333333333348 where the quotient gives 0.20833333333333326
C5_Witness ==
  /\ kfCalls = 2
  /\ kfSets = 0
  /\ kf.R = One /\ kf.Q = One /\ kf.A = One /\ kf.C = Num(2)
  /\ kfArg[1] = Num(-1)
  /\ kf.x = <<1, 1022, 0, 0>>
  /\ kf.cov = <<0, 1020, 11184810, 178956976>>

\* |x - m| does not grow over the call with measurement m
ErrorNeverGrows ==
  LessEq(AbsNum(Sub(kf'.x, kfArg'[1])), AbsNum(Sub(kf.x, kfArg'[1])))

\* a filter call that repeats the finite measurement of the preceding call,
\* without control input, on a filter constructed with Q > 0 and R >= 0 whose
\* R and Q were never changed by a setter
RepeatedMeasurement ==
  /\ CallStep
  /\ kfCalls >= 1
  /\ kfSets = 0
  /\ kfArg'[1] = kfArg[1]
  /\ kfArg'[2] = Zero
  /\ IsFinite(kfArg'[1])
  /\ Greater(kf.Q, Zero)
  /\ LessEq(Zero, kf.R)

\* prediction and measurement agree with the estimate: the prediction A * x
\* is x itself and the innovation m - C * x is 0, so that filter(m) with a
\* finite gain returns x again
FixedPoint(f, m) ==
  /\ IsFinite(f.x)
  /\ Same(predict(f, Zero), f.x)
  /\ Same(Mul(f.C, f.x), m)
  /\ IsFinite(KalmanGain(f))

\* the call is made with A = 1 and C = 1 on a finite estimate whose
\* difference from the measurement is a finite double, with a finite gain
UnitGains ==
  /\ kf.A = One
  /\ kf.C = One
  /\ IsFinite(kf.x)
  /\ IsFinite(Sub(kfArg'[1], kf.x))
  /\ IsFinite(KalmanGain(kf))

\* the filter has the default R = 1, Q = 1, A = 1 and C = 1
DefaultGains == kf.R = One /\ kf.Q = One /\ kf.A = One /\ kf.C = One

\* C6 as stated: with Q > 0 and R >= 0, repeating the measurement m drives the
\* estimate to m.  A repetition that finds the estimate at a fixed point of
\* filter(m) leaves it there for good, so the claim says that a repetition
\* finds no fixed point other than m itself.
C6_Original ==
  [][(RepeatedMeasurement /\ FixedPoint(kf, kfArg'[1]))
       => Same(kf.x, kfArg'[1])]_vars

\* C6 amended: with A = 1 and C = 1 (and Q > 0, R >= 0, no control input, a
\* finite estimate, difference and gain) a repetition of the measurement m
\* never moves the estimate away from m; with the default R = Q = 1 the
\* estimate is m after MaxRepeats calls with m.  An estimate at a fixed point
\* of filter(m) is returned again by the repetition and stays a fixed point,
\* and with A = 1 and C = 2 the first call puts the estimate at such a fixed
\* point, m / 2.
C6_ConvergesForUnitGains ==
  /\ [][(RepeatedMeasurement /\ UnitGains) => ErrorNeverGrows]_vars
  /\ []((kfCalls = MaxRepeats + 1 /\ DefaultGains /\ kfFinite)
          => kf.x = kfArg[1])
  /\ [][(RepeatedMeasurement /\ FixedPoint(kf, kfArg'[1]))
          => (kf'.x = kf.x /\ FixedPoint(kf', kfArg'[1]))]_vars
  /\ [][(CallStep /\ kfCalls = 0 /\ Greater(kf.Q, Zero) /\ kf.A = One
           /\ kf.C = Num(2) /\ IsFinite(kfArg'[1]))
          => (FixedPoint(kf', kfArg'[1]) /\ kf'.x = Mul(Half, kfArg'[1]))]_vars

\* default parameters, the measurement -1 and then 2 again and again: the
\* estimate has arrived at 2
C6_Witness ==
  /\ kfCalls = MaxRepeats + 1
  /\ DefaultGains
  /\ accelRange = "ordinary"
  /\ ~kfConst
  /\ kfArg = <<Num(2), Zero>>
  /\ kf.x = Num(2)

\* a filter constructed with Q > 0, R >= 0 and C # 0 whose R and Q were never
\* changed by a setter
WellFormed ==
  /\ Greater(kf.Q, Zero)
  /\ LessEq(Zero, kf.R)
  /\ ~IsZero(kf.C)
  /\ kfSets = 0

\* C7: across filter calls with constant R and Q (no setProcessNoise or
\* setMeasurementNoise call since construction) and constant arguments,
\* uncertainty() after a filter call is at most uncertainty() after the
\* preceding filter call; stated for Q > 0, R >= 0, C # 0 and a finite
\* measurement.
C7_UncertaintyNonIncreasing ==
  [][(CallStep /\ kfCalls >= 1 /\ WellFormed /\ kfConst' /\ kfFinite')
       => LessEq(uncertainty(kf'), uncertainty(kf))]_vars

\* the filtered vector of the accel event of this step
NewFiltered == window'[Len(window')].filtered

\* its magnitude is greater than the stored one
NewIsGreater == Greater(NewFiltered.mag, max_acceleration.mag)

\* C8: an accel event replaces the stored peak only when the new filtered
\* magnitude is strictly greater than the stored one; on equal or smaller
\* magnitude the stored (earlier) peak stays.
C8_ReplaceOnlyWhenStrictlyGreater ==
  [][SampleStep
       => /\ NewFiltered.x = filterX'.x
          /\ NewFiltered.y = filterY'.x
          /\ NewFiltered.z = filterZ'.x
          /\ max_acceleration' =
                IF NewIsGreater THEN NewFiltered ELSE max_acceleration]_vars

\* two different filtered vectors of equal magnitude in one window: the
\* earlier one is the peak
C8_Witness ==
  /\ Len(window) = 2
  /\ window[1].filtered # window[2].filtered
  /\ window[1].filtered.mag = window[2].filtered.mag
  /\ Greater(window[1].filtered.mag, Zero)
  /\ max_acceleration = window[1].filtered

\* C9 as stated: hasData becomes true exactly when the new filtered magnitude
\* is strictly greater than the stored peak's; otherwise it is left unchanged.
C9_Original ==
  [][SampleStep
       => hasData' = IF NewIsGreater THEN TRUE ELSE hasData]_vars

\* C9 amended: every accel event sets hasData = true, whether or not it
\* replaces the peak; the next tick then emits the stored peak and does not
\* call Bangle.getAccel().
C9_EverySampleSetsHasData ==
  /\ [][SampleStep => hasData']_vars
  /\ [][(TickStep /\ window # <<>>)
          => /\ getAccelRet' = <<>>
             /\ gbCalls'[Len(gbCalls')].accel = max_acceleration]_vars

\* the only sample of the window has filtered magnitude 0: the peak is still
\* the zero vector, and hasData is set
C9_Witness ==
  /\ Len(window) = 1
  /\ window[1].filtered.mag = Zero
  /\ max_acceleration = ZeroAcceleration
  /\ hasData

SameSampleAgain ==
  /\ SampleStep
  /\ window # <<>>
  /\ window'[Len(window')].raw = window[Len(window)].raw

\* C10 as stated: submitting the same sample twice in a row leaves the stored
\* peak and hasData as they were after the first submission.
C10_Original ==
  [][SameSampleAgain
       => /\ max_acceleration' = max_acceleration
          /\ hasData' = hasData]_vars

\* C10 amended: submitting the same sample again leaves hasData as it was
\* after the first submission, and leaves the stored peak as it was whenever
\* the second computed magnitude is not strictly greater than the stored one
\* (as when the filters have settled on the sample); the filters move between
\* the two submissions, and a second filtered vector of strictly greater
\* magnitude replaces the peak.
C10_IdempotentUnlessGreater ==
  [][SameSampleAgain
       => /\ hasData' = hasData
          /\ (~NewIsGreater => max_acceleration' = max_acceleration)
          /\ (max_acceleration' # max_acceleration
                => max_acceleration' = NewFiltered)]_vars

\* the same sample was delivered twice in one window and filtered to the same
\* vector both times: the peak is the one stored by the first submission
C10_Witness ==
  /\ Len(window) >= 2
  /\ window[Len(window)].raw = window[Len(window) - 1].raw
  /\ window[Len(window)].filtered = window[Len(window) - 1].filtered
  /\ max_acceleration = window[Len(window) - 1].filtered
  /\ max_acceleration # ZeroAcceleration
  /\ hasData

\* C11: whenever hasData is false the stored peak is the zero vector; every
\* tick leaves hasData = false and the zero vector, and a tick with no accel
\* event since startup or since the previous tick finds them so.
C11_NoDataMeansZeroPeak ==
  /\ [](~hasData => max_acceleration = ZeroAcceleration)
  /\ [][TickStep => (~hasData' /\ max_acceleration' = ZeroAcceleration)]_vars
  /\ [][(TickStep /\ window = <<>>)
          => (~hasData /\ max_acceleration = ZeroAcceleration)]_vars

\* a tick has just flushed a window whose peak was (0,5,0)
C11_Witness ==
  /\ ticks = 1
  /\ samples = 2
  /\ gbCalls[1].accel = Reading(0, 5, 0)
  /\ ~hasData
  /\ max_acceleration = ZeroAcceleration

\* the raw samples (1,0,0), (0,5,0), (0,0,2) were the first three accel events
\* and arrived in one window
ScenarioOneFiveTwo ==
  /\ samples = 3
  /\ Len(window) = 3
  /\ window[1].raw = Reading(1, 0, 0)
  /\ window[2].raw = Reading(0, 5, 0)
  /\ window[3].raw = Reading(0, 0, 2)

\* C12 as stated: after (1,0,0), (0,5,0), (0,0,2) on fresh filters the peak is
\* the second sample with its raw values, (0,5,0) of magnitude 5.
C12_Original ==
  ScenarioOneFiveTwo => max_acceleration = Reading(0, 5, 0)

\* C12 amended: after (1,0,0), (0,5,0), (0,0,2) on fresh filters the peak is
\* the filtered vector of the second sample, (1/3, 10/3, 0) as the doubles
\* (0.33333333333333337, 3.333333333333333, 0) of magnitude 3.34995854037363;
\* only the first sample is passed through unchanged.
C12_SecondSampleFilteredIsPeak ==
  ScenarioOneFiveTwo =>
    /\ max_acceleration = window[2].filtered
    /\ window[1].filtered = Reading(1, 0, 0)
    /\ max_acceleration = [x |-> <<0, 1021, 5592405, 89478486>>,
                           y |-> <<0, 1024, 11184810, 178956970>>,
                           z |-> Zero,
                           mag |-> <<0, 1024, 11324273, 3072661>>]

\* the scenario has run and the third filtered vector is
\* (0.12500000000000006, 1.2500000000000004, 1.2499999999999998)
C12_Witness ==
  /\ ScenarioOneFiveTwo
  /\ ticks = 0
  /\ window[3].filtered.x = <<0, 1020, 0, 2>>
  /\ window[3].filtered.y = <<0, 1023, 4194304, 2>>
  /\ window[3].filtered.z = <<0, 1023, 4194303, 268435455>>

\* C13: with enabled false or accelsender.json absent neither the accel
\* handler nor the timer runs: nothing is ever emitted and the filters and
\* the peak state keep their initial values.
C13_DisabledDoesNothing ==
  ~config.enabled =>
    /\ gbCalls = <<>>
    /\ consoleErrors = 0
    /\ samples = 0
    /\ ticks = 0
    /\ filterX = DefaultKalmanFilter
    /\ filterY = DefaultKalmanFilter
    /\ filterZ = DefaultKalmanFilter
    /\ max_acceleration = ZeroAcceleration
    /\ ~hasData

\* the program was started with reporting disabled
C13_Witness ==
  /\ ~config.enabled
  /\ ticks = 0
  /\ gbCalls = <<>>
  /\ isNaN(filterX.x)

\* C14: a tick whose transport call throws leaves the three filters unchanged
\* and resets the peak state to the zero vector and hasData = false, exactly
\* as a tick whose transport call succeeds; the failure is only logged.
C14_TransportFailureStaysOutside ==
  [][(TickStep /\ consoleErrors' # consoleErrors)
       => /\ consoleErrors' = consoleErrors + 1
          /\ filterX' = filterX
          /\ filterY' = filterY
          /\ filterZ' = filterZ
          /\ max_acceleration' = ZeroAcceleration
          /\ hasData' = FALSE
          /\ window' = <<>>
          /\ Len(gbCalls') = Len(gbCalls) + 1]_vars

\* the only tick so far flushed a window with data and its transport call
\* threw; the peak state is reset and the filters keep their estimates
C14_Witness ==
  /\ ticks = 1
  /\ consoleErrors = 1
  /\ samples >= 1
  /\ getAccelRet = <<>>
  /\ ~hasData
  /\ max_acceleration = ZeroAcceleration
  /\ ~isNaN(filterX.x)

\* C15: a tick with no accel event since the previous tick sends the last
\* value again: its report carries the same vector as the previous report.
C15_LastValueSentAgain ==
  [][(TickStep /\ ticks >= 1 /\ window = <<>>)
       => gbCalls'[Len(gbCalls')].accel = gbCalls[Len(gbCalls)].accel]_vars

\* C18: a tick leaves the three filters unchanged, on the peak path and on
\* the fallback path; the live reading of the fallback is not filtered.
C18_TickLeavesFilters ==
  [][TickStep
       => /\ filterX' = filterX
          /\ filterY' = filterY
          /\ filterZ' = filterZ]_vars

\* a fallback tick emitted the live reading (0,0,2) before any accel event:
\* the filters are still uninitialized
C18_Witness ==
  /\ samples = 0
  /\ ticks >= 1
  /\ getAccelRet = <<Reading(0, 0, 2)>>
  /\ isNaN(filterX.x)
  /\ isNaN(filterZ.x)
  /\ isNaN(filterZ.cov)

\* C16: the first filter call initializes the estimator and no later call
\* finds it uninitialized again: the first-call branch is taken exactly by
\* call number one; stated for Q > 0, R >= 0, C # 0 and finite measurements.
C16_InitializedOnceForAll ==
  /\ [](kfCalls = 0 => isNaN(kf.x))
  /\ [][(CallStep /\ WellFormed /\ kfFinite)
          => (isNaN(kf.x) <=> kfCalls = 0)]_vars
  /\ [][(CallStep /\ WellFormed /\ kfFinite' /\ kfCalls = 0)
          => ~isNaN(kf'.x)]_vars

\* C17: after the first filter call, with Q > 0 and R >= 0 (and C # 0 and
\* finite measurements), the covariance is never negative and the estimate
\* is not the NaN of an uninitialized filter.
C17_CovarianceNonNegative ==
  (kfCalls >= 1 /\ WellFormed /\ kfFinite) =>
    /\ ~Less(kf.cov, Zero)
    /\ ~isNaN(kf.x)

\* min(prev, z) <= new <= max(prev, z)
Between(prev, z, new) ==
  \/ (LessEq(prev, new) /\ LessEq(new, z))
  \/ (LessEq(z, new) /\ LessEq(new, prev))

\* 0 < k < 1
InsideUnit(k) == Less(Zero, k) /\ Less(k, One)

\* the gain of a call on f is strictly between 0 and 1
GainInside(f) == InsideUnit(KalmanGain(f))

\* C19 as stated: with the default parameters every filter call on an
\* initialized filter uses a gain strictly between 0 and 1, and the new
\* estimate lies between the previous estimate and the measurement (a
\* reading whose components are finite numbers).
C19_Original ==
  [][(SampleStep /\ ~isNaN(filterX.x) /\ ~isNaN(filterY.x) /\ ~isNaN(filterZ.x)
        /\ accelFinite')
       => LET z == window'[Len(window')].raw
          IN  /\ \A f \in {filterX, filterY, filterZ} : GainInside(f)
              /\ Between(filterX.x, z.x, filterX'.x)
              /\ Between(filterY.x, z.y, filterY'.x)
              /\ Between(filterZ.x, z.z, filterZ'.x)]_vars

\* a call with measurement z on the filter f, which becomes g: the estimate
\* stays between the previous estimate and z when z - x is a finite double,
\* and is an infinity when z - x overflows
EstimateStep(f, z, g) ==
  LET difference == Sub(z, f.x)
  IN  /\ ~isNaN(f.x) => GainInside(f)
      /\ (IsFinite(f.x) /\ IsFinite(difference)) => Between(f.x, z, g.x)
      /\ (IsFinite(f.x) /\ IsFinite(z) /\ IsInf(difference)) => g.x = difference

\* C19 amended: with the default parameters every filter call on an
\* initialized filter uses a gain strictly between 0 and 1; the new estimate
\* lies between the previous estimate and the measurement z whenever z minus
\* the previous estimate is a finite double; when that difference overflows,
\* the new estimate is that infinity.
C19_GainBetweenZeroAndOne ==
  [][SampleStep
       => LET z == window'[Len(window')].raw
          IN  /\ EstimateStep(filterX, z.x, filterX')
              /\ EstimateStep(filterY, z.y, filterY')
              /\ EstimateStep(filterZ, z.z, filterZ')]_vars

\* estimate 1, measurement -2: the new estimate -1 is strictly between them
C19_Witness ==
  /\ samples = 2
  /\ Len(window) = 2
  /\ window[1].filtered.x = One
  /\ window[2].raw.x = Num(-2)
  /\ filterX.x = Num(-1)

\* C20: the three axis filters are in lockstep: all three uninitialized, or
\* all three initialized with the same covariance and hence the same gain
\* for the next accel event.  Stated for runs whose readings have finite
\* numbers for components.
C20_AxesInLockstep ==
  accelFinite =>
    \/ /\ isNaN(filterX.x) /\ isNaN(filterY.x) /\ isNaN(filterZ.x)
       /\ isNaN(filterX.cov) /\ isNaN(filterY.cov) /\ isNaN(filterZ.cov)
       /\ samples = 0
    \/ /\ ~isNaN(filterX.x) /\ ~isNaN(filterY.x) /\ ~isNaN(filterZ.x)
       /\ filterX.cov = filterY.cov
       /\ filterY.cov = filterZ.cov
       /\ KalmanGain(filterX) = KalmanGain(filterY)
       /\ KalmanGain(filterY) = KalmanGain(filterZ)
       /\ samples >= 1

====
